---- MODULE Spec2Model ----
(***************************************************************************)
(* GPU counting sort (oxyde_sorting): GpuCountingSortModule::new, the      *)
(* level planner, dispatch_work's recorded command sequence and the        *)
(* execution of the recorded stages on the device.                         *)
(*                                                                         *)
(* Buffers are functions from 0..len-1 to u32 values.  A u32 is held as    *)
(* the representative of its residue modulo 2^32 that lies between -2^31   *)
(* and 2^31, so that the wrapping sum and difference are + and -  (0 - 1   *)
(* is -1, which stands for 0xFFFFFFFF).                                    *)
(*                                                                         *)
(* The host code (validation, planner, dispatch geometry) is translated    *)
(* from src/src/lib.rs.  The four kernels (count, workgroup_scan,          *)
(* workgroup_propagate, sort) live in the shaders directory (counting.wgsl,*)
(* scan.wgsl, sorting.wgsl); they are modelled from sections 4.1-4.3 of    *)
(* the specification.  Count and sort are stepped one invocation at a      *)
(* time, scan and propagate one work-group at a time, in any order.        *)
(***************************************************************************)
EXTENDS Integers, Sequences, FiniteSets, TLC

VARIABLES
    values_buffer,   \* [usage, data]: the caller's value buffer (N keys)
    count_buffer,    \* [usage, data]: the caller's count buffer (B counters)
    workgroup_size,  \* the workgroup_size argument of new
    result,          \* what new returned: NotCreated, Ok(engine) or Err(error)
    sorting_id,      \* contents of the engine's sorting id buffer (<<>> before creation)
    device_resources, \* what new has created on the device (buffers, bind groups, shaders, pipelines)
    encoder,         \* commands recorded in the command encoder, not yet submitted
    queue,           \* commands submitted to the device, not yet started
    stage,           \* the command the device is running or has last run
    pending,         \* invocations (count, sort) or work-groups (scan, propagate) of stage still to run
    dispatched,      \* number of dispatch_work calls made
    planner,         \* scan_then_propagate_level_count run step by step: [pc, count, temp_size]
    other_buffer,    \* [usage, data]: another buffer of the caller, which new was not given
    host             \* the caller's readback: position, submission, staging buffers, channels

vars == <<values_buffer, count_buffer, workgroup_size, result, sorting_id,
          device_resources, encoder, queue, stage, pending, dispatched,
          planner, other_buffer, host>>

\* ---------------------------------------------------------------- bounds

\* Largest value buffer (in elements) in the pipeline specification.
MaxN == 2
\* Largest count buffer (in elements) in the pipeline specification.
MaxB == 8
\* Largest of the small count buffers in the construction specification.
MaxCountSize == 20
\* dispatch_work calls per run.
MaxDispatch == 2
\* Largest value of the planner's level counter in the step-by-step planner
\* specification; it stands for u32::MAX, where `count += 1` overflows.
MaxPlannerCount == 6
\* Largest count buffer (in elements) where dispatch_work's count_buffer
\* argument is left to the caller.
MaxArgB == 3
MaxRuns == 2

\* Work-group widths of the pipeline specification.
Widths == {2, 3}
\* Work-group widths of the construction specification.
NewWidths == {2, 3, 32, 128}
\* Stale contents a count buffer may hold before the invocation (every slot).
CountInitVals == {0, 1}

\* ------------------------------------------------------ program constants

SizeOfU32 == 4
MaxLevels == 4

STORAGE == "STORAGE"
COPY_SRC == "COPY_SRC"
COPY_DST == "COPY_DST"

\* ------------------------------------------------------------- buffers

Zeroed(n) == [i \in 0..(n - 1) |-> 0]

BufLen(buf) == Cardinality(DOMAIN buf.data)

\* wgpu::Buffer::size(): the size in bytes.
BufSize(buf) == BufLen(buf) * SizeOfU32

\* A second buffer of the caller, as long as the count buffer and with the
\* same usages, holding ones.
OtherBuffer(counts) ==
    [usage |-> {STORAGE, COPY_SRC, COPY_DST},
     data |-> [i \in DOMAIN counts.data |-> 1]]

\* ===================================================== Level planner

RECURSIVE level_loop(_, _, _)
level_loop(count, temp_size, wg) ==
    IF temp_size > 0
        THEN level_loop(count + 1, temp_size \div wg, wg)
        ELSE count

\* Faulty variant: the loop divides by 2 whatever the work-group size.
scan_then_propagate_level_count_halving(size, wg) ==
    level_loop(1, size \div wg, 2)

\* Faulty variant: the counter starts at 0, one level short.
scan_then_propagate_level_count_short(size, wg) ==
    level_loop(0, size \div wg, wg)

scan_then_propagate_level_count(size, wg) ==
    level_loop(1, size \div wg, wg)

RECURSIVE successors(_, _, _)
successors(x, wg, n) ==
    IF n = 0
        THEN <<>>
        ELSE <<x>> \o successors((x + wg - 1) \div wg, wg, n - 1)

RECURSIVE successors_floor(_, _, _)
successors_floor(x, wg, n) ==
    IF n = 0
        THEN <<>>
        ELSE <<x>> \o successors_floor(x \div wg, wg, n - 1)

\* Faulty variant: the first element of the sequence, the size itself, is
\* not skipped.
workgroup_size_per_level_no_skip(size, wg, level) ==
    successors(size, wg, level)

\* Faulty variant: the per-level work-group count rounds down.
workgroup_size_per_level_floor(size, wg, level) ==
    Tail(successors_floor(size, wg, level + 1))

\* successors(size, x -> ceil(x / wg)).take(level + 1).skip(1)
workgroup_size_per_level(size, wg, level) ==
    Tail(successors(size, wg, level + 1))

\* The planner not running.
PlannerIdle == [pc |-> "idle", count |-> 0, temp_size |-> 0]

\* The staging buffers of the caller, in the order the caller handles them.
StagingBuffers == <<"value", "count", "sorting">>
StagingNames == {StagingBuffers[k] : k \in 1..3}

\* A staging buffer: whether the copy into it has run, its mapping
\* ("unmapped", "pending", or the result of the request), whether the map
\* request carries a callback, and whether the host has read it.
Staging == [copied |-> FALSE, map |-> "unmapped", callback |-> FALSE, read |-> FALSE]

\* The caller before it runs the sort: program is the function that runs
\* ("check_sorting" of the tests or "App::update" of the demo).
HostIdle(program) ==
    [program |-> program,
     pc |-> "record",
     runs |-> 0,
     commands |-> <<>>,
     executed |-> <<>>,
     staging |-> [s \in StagingNames |-> Staging],
     channel |-> [s \in StagingNames |-> <<>>],
     received |-> [s \in StagingNames |-> "none"]]

\* ===================================================== Construction

NotCreated == [tag |-> "NotCreated"]
Ok(e) == [tag |-> "Ok", engine |-> e]
Err(e) == [tag |-> "Err", error |-> e]

MissingBufferUsage(usage, name) ==
    [kind |-> "MissingBufferUsage", usage |-> usage, name |-> name]

ToManyScanThenPropagateLevels(size, wg, levels) ==
    [kind |-> "ToManyScanThenPropagateLevels", size |-> size,
     workgroup_size |-> wg, levels |-> levels]

\* The pipelines new builds: one scan pipeline per level, one propagate
\* pipeline per level but the last; each is named by its SCAN_LEVEL define.
\* Faulty variant: a propagate pipeline is built for the last level too.
propagate_pipelines_every_level(levels) == [l \in 1..levels |-> l - 1]

scan_pipelines(levels) == [l \in 1..levels |-> l - 1]
propagate_pipelines(levels) == [l \in 1..(levels - 1) |-> l - 1]

\* Faulty variant: the sorting id buffer is sized by the count buffer.
Engine_sorting_id_by_count(values, counts, wg, levels) ==
    [workgroup_size |-> wg,
     value_size |-> BufSize(values) \div SizeOfU32,
     count_size |-> BufSize(counts) \div SizeOfU32,
     sorting_id_size |-> BufSize(counts),
     counting_bind_group |-> <<"values", "count">>,
     sorting_bind_group |-> <<"sorting_id">>,
     count_buffer_bind_group |-> <<"count">>,
     workgroup_scan_pipelines |-> scan_pipelines(levels),
     workgroup_propagate_pipelines |-> propagate_pipelines(levels)]

\* Faulty variant: counting_bind_group binds the count buffer at the read-only
\* binding 0 and the values buffer at the read-write binding 1.
Engine_values_writable(values, counts, wg, levels) ==
    [workgroup_size |-> wg,
     value_size |-> BufSize(values) \div SizeOfU32,
     count_size |-> BufSize(counts) \div SizeOfU32,
     sorting_id_size |-> BufSize(values),
     counting_bind_group |-> <<"count", "values">>,
     sorting_bind_group |-> <<"sorting_id">>,
     count_buffer_bind_group |-> <<"count">>,
     workgroup_scan_pipelines |-> scan_pipelines(levels),
     workgroup_propagate_pipelines |-> propagate_pipelines(levels)]

\* The engine new returns.  The bind groups name the buffers they bind, in
\* binding order: counting_bind_group binds the values at binding 0, which
\* the layout declares read only, and the count buffer at binding 1.

Engine(values, counts, wg, levels) ==
    [workgroup_size |-> wg,
     value_size |-> BufSize(values) \div SizeOfU32,
     count_size |-> BufSize(counts) \div SizeOfU32,
     sorting_id_size |-> BufSize(values),
     counting_bind_group |-> <<"values", "count">>,
     sorting_bind_group |-> <<"sorting_id">>,
     count_buffer_bind_group |-> <<"count">>,
     workgroup_scan_pipelines |-> scan_pipelines(levels),
     workgroup_propagate_pipelines |-> propagate_pipelines(levels)]

\* Faulty variant: the level limit is checked before the usages.
new_level_limit_first(values, counts, wg) ==
    LET count_size == BufSize(counts) \div SizeOfU32
        levels == scan_then_propagate_level_count(count_size, wg)
    IN  IF levels > MaxLevels
            THEN Err(ToManyScanThenPropagateLevels(count_size, wg, levels))
        ELSE IF COPY_DST \notin counts.usage
            THEN Err(MissingBufferUsage(COPY_DST, "Count buffer"))
        ELSE IF STORAGE \notin values.usage
            THEN Err(MissingBufferUsage(STORAGE, "Values buffer"))
        ELSE IF STORAGE \notin counts.usage
            THEN Err(MissingBufferUsage(STORAGE, "Count buffer"))
        ELSE Ok(Engine(values, counts, wg, levels))

\* Faulty variant: the values buffer's STORAGE check comes first.
new_values_first(values, counts, wg) ==
    IF STORAGE \notin values.usage
        THEN Err(MissingBufferUsage(STORAGE, "Values buffer"))
    ELSE IF COPY_DST \notin counts.usage
        THEN Err(MissingBufferUsage(COPY_DST, "Count buffer"))
    ELSE IF STORAGE \notin counts.usage
        THEN Err(MissingBufferUsage(STORAGE, "Count buffer"))
    ELSE LET count_size == BufSize(counts) \div SizeOfU32
             levels == scan_then_propagate_level_count(count_size, wg)
         IN  IF levels > MaxLevels
                 THEN Err(ToManyScanThenPropagateLevels(count_size, wg, levels))
                 ELSE Ok(Engine(values, counts, wg, levels))

\* Faulty variant: the level limit is compared with >=.
new_limit_off_by_one(values, counts, wg) ==
    IF COPY_DST \notin counts.usage
        THEN Err(MissingBufferUsage(COPY_DST, "Count buffer"))
    ELSE IF STORAGE \notin values.usage
        THEN Err(MissingBufferUsage(STORAGE, "Values buffer"))
    ELSE IF STORAGE \notin counts.usage
        THEN Err(MissingBufferUsage(STORAGE, "Count buffer"))
    ELSE LET count_size == BufSize(counts) \div SizeOfU32
             levels == scan_then_propagate_level_count(count_size, wg)
         IN  IF levels >= MaxLevels
                 THEN Err(ToManyScanThenPropagateLevels(count_size, wg, levels))
                 ELSE Ok(Engine(values, counts, wg, levels))

\* Faulty variant: the values buffer is also checked for COPY_SRC.
new_checks_copy_src(values, counts, wg) ==
    IF COPY_DST \notin counts.usage
        THEN Err(MissingBufferUsage(COPY_DST, "Count buffer"))
    ELSE IF STORAGE \notin values.usage
        THEN Err(MissingBufferUsage(STORAGE, "Values buffer"))
    ELSE IF COPY_SRC \notin values.usage
        THEN Err(MissingBufferUsage(COPY_SRC, "Values buffer"))
    ELSE IF STORAGE \notin counts.usage
        THEN Err(MissingBufferUsage(STORAGE, "Count buffer"))
    ELSE LET count_size == BufSize(counts) \div SizeOfU32
             levels == scan_then_propagate_level_count(count_size, wg)
         IN  IF levels > MaxLevels
                 THEN Err(ToManyScanThenPropagateLevels(count_size, wg, levels))
                 ELSE Ok(Engine(values, counts, wg, levels))

\* GpuCountingSortModule::new: the three usage checks, the level limit,
\* then the engine.
new(values, counts, wg) ==
    IF COPY_DST \notin counts.usage
        THEN Err(MissingBufferUsage(COPY_DST, "Count buffer"))
    ELSE IF STORAGE \notin values.usage
        THEN Err(MissingBufferUsage(STORAGE, "Values buffer"))
    ELSE IF STORAGE \notin counts.usage
        THEN Err(MissingBufferUsage(STORAGE, "Count buffer"))
    ELSE LET count_size == BufSize(counts) \div SizeOfU32
             levels == scan_then_propagate_level_count(count_size, wg)
         IN  IF levels > MaxLevels
                 THEN Err(ToManyScanThenPropagateLevels(count_size, wg, levels))
                 ELSE Ok(Engine(values, counts, wg, levels))

Resource(kind, label, level) == [kind |-> kind, label |-> label, level |-> level]

\* Everything new creates on the device on its way to Ok(Self), all of it
\* after the last error return: the sorting id buffer, the two bind group
\* layouts, the three bind groups, the shader modules and the pipelines.
created_resources(e) ==
    {Resource("buffer", "sorting id buffer", 0),
     Resource("bind group layout", "single_read_write_storage_buffer", 0),
     Resource("bind group layout", "read_write", 0),
     Resource("bind group", "counting_bind_group", 0),
     Resource("bind group", "sorting_bind_group", 0),
     Resource("bind group", "count_buffer_bind_group", 0),
     Resource("shader", "counting shader", 0),
     Resource("shader", "sorting shader", 0),
     Resource("pipeline", "counting pipeline", 0),
     Resource("pipeline", "sorting pipeline", 0)}
    \cup {Resource("shader", "scan shader", e.workgroup_scan_pipelines[k]) :
             k \in DOMAIN e.workgroup_scan_pipelines}
    \cup {Resource("pipeline", "workgroup scan pipeline",
                   e.workgroup_scan_pipelines[k]) :
             k \in DOMAIN e.workgroup_scan_pipelines}
    \cup {Resource("pipeline", "workgroup propagate pipeline",
                   e.workgroup_propagate_pipelines[k]) :
             k \in DOMAIN e.workgroup_propagate_pipelines}

\* Faulty variant: the sorting id buffer is allocated on entry, before the
\* usage checks and the level limit.
New_allocates_first ==
    /\ result = NotCreated
    /\ result' = new(values_buffer, count_buffer, workgroup_size)
    /\ sorting_id' = Zeroed(BufSize(values_buffer) \div SizeOfU32)
    /\ device_resources' =
           IF result'.tag = "Ok"
               THEN created_resources(result'.engine)
               ELSE {Resource("buffer", "sorting id buffer", 0)}
    /\ UNCHANGED <<host, other_buffer, planner, values_buffer, count_buffer, workgroup_size,
                   encoder, queue, stage, pending, dispatched>>

\* The call of new: on success the sorting id buffer exists, zero-initialised
\* and as large as the values buffer.
New ==
    /\ result = NotCreated
    /\ result' = new(values_buffer, count_buffer, workgroup_size)
    /\ sorting_id' = IF result'.tag = "Ok"
                        THEN Zeroed(result'.engine.sorting_id_size \div SizeOfU32)
                        ELSE sorting_id
    /\ device_resources' = IF result'.tag = "Ok"
                              THEN created_resources(result'.engine)
                              ELSE device_resources
    /\ UNCHANGED <<host, other_buffer, planner, values_buffer, count_buffer, workgroup_size,
                   encoder, queue, stage, pending, dispatched>>

\* ===================================================== dispatch_work

Command(op, level, wg) == [op |-> op, level |-> level, wg |-> wg]

Idle == Command("idle", 0, 0)

\* encoder.clear_buffer(buffer, 0, None): the clear names its target.
ClearCommand(target) == [op |-> "clear", level |-> 0, wg |-> 0, target |-> target]

\* Faulty variant: a whole work-group size is added before the division.
value_workgroup_size_x_one_more(e) ==
    (e.value_size + e.workgroup_size) \div e.workgroup_size

\* Faulty variant: the element count is divided rounding down.
value_workgroup_size_x_floor(e) ==
    e.value_size \div e.workgroup_size

\* let value_workgroup_size_x = (value_size + workgroup_size - 1) / workgroup_size
value_workgroup_size_x(e) ==
    (e.value_size + e.workgroup_size - 1) \div e.workgroup_size

Min(a, b) == IF a < b THEN a ELSE b

\* The scan dispatches: scan pipelines zipped with the per-level sizes.
scan_commands(e) ==
    LET sizes == workgroup_size_per_level(e.count_size, e.workgroup_size,
                                          Len(e.workgroup_scan_pipelines))
        n == Min(Len(e.workgroup_scan_pipelines), Len(sizes))
    IN  [k \in 1..n |-> Command("scan", e.workgroup_scan_pipelines[k], sizes[k])]

\* Faulty variant: the reversed sizes are zipped without skipping the last
\* level's.
propagate_commands_no_skip(e) ==
    LET sizes == workgroup_size_per_level(e.count_size, e.workgroup_size,
                                          Len(e.workgroup_scan_pipelines))
        p == e.workgroup_propagate_pipelines
        n == Min(Len(p), Len(sizes))
    IN  [k \in 1..n |->
            Command("propagate", p[Len(p) + 1 - k], sizes[Len(sizes) + 1 - k])]

\* Faulty variant: the propagates run bottom-up, in the order of the scans.
propagate_commands_ascending(e) ==
    LET sizes == workgroup_size_per_level(e.count_size, e.workgroup_size,
                                          Len(e.workgroup_scan_pipelines))
        p == e.workgroup_propagate_pipelines
        n == Min(Len(p), Len(sizes) - 1)
    IN  [k \in 1..n |-> Command("propagate", p[k], sizes[k])]

\* The propagate dispatches: propagate pipelines reversed, zipped with the
\* per-level sizes reversed less their first.
propagate_commands(e) ==
    LET sizes == workgroup_size_per_level(e.count_size, e.workgroup_size,
                                          Len(e.workgroup_scan_pipelines))
        p == e.workgroup_propagate_pipelines
        n == Min(Len(p), Len(sizes) - 1)
    IN  [k \in 1..n |->
            Command("propagate", p[Len(p) + 1 - k], sizes[Len(sizes) - k])]

\* Faulty variant: the counting pass is recorded before the clear.
dispatch_work_count_before_clear(e, count_buffer_arg) ==
    <<Command("count", 0, value_workgroup_size_x(e)),
      ClearCommand(count_buffer_arg)>>
    \o scan_commands(e)
    \o propagate_commands(e)
    \o <<Command("sort", 0, value_workgroup_size_x(e))>>

\* Faulty variant: the count buffer is not cleared.
dispatch_work_no_clear(e, count_buffer_arg) ==
    <<Command("count", 0, value_workgroup_size_x(e))>>
    \o scan_commands(e)
    \o propagate_commands(e)
    \o <<Command("sort", 0, value_workgroup_size_x(e))>>

\* What dispatch_work appends to the encoder: clear_buffer, the counting
\* pass, the scan pass (scans then propagates), the sort pass.
dispatch_work(e, count_buffer_arg) ==
    <<ClearCommand(count_buffer_arg),
      Command("count", 0, value_workgroup_size_x(e))>>
    \o scan_commands(e)
    \o propagate_commands(e)
    \o <<Command("sort", 0, value_workgroup_size_x(e))>>

\* ---- the demo application (App::update), which records the pipeline by
\* hand for its own buffers and pipelines
WORKGROUP_SIZE == 128
AppSize == 8192

Max(a, b) == IF a < b THEN b ELSE a

\* let workgroup_size_x = (self.size as u32 + WORKGROUP_SIZE) / WORKGROUP_SIZE
app_workgroup_size_x == (AppSize + WORKGROUP_SIZE) \div WORKGROUP_SIZE

\* The commands of the "Conting and scan encoder" of App::update: the clear
\* of the app's count buffer, the count pass, the scan pass (level 0, level
\* 1, propagate) and the sort pass.
app_update_commands ==
    <<ClearCommand("count"),
      Command("count", 0, app_workgroup_size_x),
      Command("scan", 0, app_workgroup_size_x),
      Command("scan", 1, Max(app_workgroup_size_x \div WORKGROUP_SIZE, 1)),
      Command("propagate", 0, app_workgroup_size_x),
      Command("sort", 0, app_workgroup_size_x)>>

\* Faulty variant: the count buffer is cleared during the call, not by a
\* recorded command.
DispatchWork_clears_now ==
    /\ result.tag = "Ok"
    /\ dispatched < MaxDispatch
    /\ encoder = <<>> /\ queue = <<>> /\ pending = {}
    /\ count_buffer' = [count_buffer EXCEPT !.data = Zeroed(BufLen(count_buffer))]
    /\ encoder' = encoder \o dispatch_work_no_clear(result.engine, "count")
    /\ dispatched' = dispatched + 1
    /\ UNCHANGED <<host, other_buffer, planner, device_resources, values_buffer, workgroup_size, result,
                   sorting_id, queue, stage, pending>>

\* Faulty variant: only the engine's first invocation records the clear.
DispatchWork_clear_once ==
    /\ result.tag = "Ok"
    /\ dispatched < MaxDispatch
    /\ encoder = <<>> /\ queue = <<>> /\ pending = {}
    /\ encoder' = encoder \o (IF dispatched = 0
                                  THEN dispatch_work(result.engine, "count")
                                  ELSE dispatch_work_no_clear(result.engine, "count"))
    /\ dispatched' = dispatched + 1
    /\ UNCHANGED <<host, other_buffer, planner, device_resources, values_buffer, count_buffer, workgroup_size, result,
                   sorting_id, queue, stage, pending>>

\* A call of dispatch_work with the named buffer as its count_buffer
\* argument.  The caller keeps one invocation in flight at a time: it records
\* the next one once the device has completed what was submitted.
DispatchWorkWith(count_buffer_arg) ==
    /\ result.tag = "Ok"
    /\ dispatched < MaxDispatch
    /\ encoder = <<>> /\ queue = <<>> /\ pending = {}
    /\ encoder' = encoder \o dispatch_work(result.engine, count_buffer_arg)
    /\ dispatched' = dispatched + 1
    /\ UNCHANGED <<host, other_buffer, planner, device_resources, values_buffer, count_buffer, workgroup_size, result,
                   sorting_id, queue, stage, pending>>

\* The call as the tests make it: the argument is the count buffer that was
\* given to new.
DispatchWork == DispatchWorkWith("count")

\* queue.submit(commands): the recorded commands go to the device, in order.
Submit ==
    /\ encoder # <<>>
    /\ queue' = queue \o encoder
    /\ encoder' = <<>>
    /\ UNCHANGED <<host, other_buffer, planner, device_resources, values_buffer, count_buffer, workgroup_size, result,
                   sorting_id, stage, pending, dispatched>>

\* ===================================================== Device

N == BufLen(values_buffer)
B == BufLen(count_buffer)

RECURSIVE Pow(_, _)
Pow(b, e) == IF e = 0 THEN 1 ELSE b * Pow(b, e - 1)

\* The contents of the buffer a binding names.
Data(name) ==
    CASE name = "values" -> values_buffer.data
      [] name = "count" -> count_buffer.data
      [] name = "sorting_id" -> sorting_id
      [] name = "other" -> other_buffer.data

\* A kernel's stores: d1 into the buffer named n1, then d2 into the buffer
\* named n2; every other buffer keeps its contents.
Store2(n1, d1, n2, d2) ==
    LET after(name) == IF name = n2 THEN d2
                       ELSE IF name = n1 THEN d1
                       ELSE Data(name)
    IN  /\ values_buffer' = [values_buffer EXCEPT !.data = after("values")]
        /\ count_buffer' = [count_buffer EXCEPT !.data = after("count")]
        /\ sorting_id' = after("sorting_id")

Store(name, data) == Store2(name, data, name, data)

\* A compute pass launches wg work-groups of workgroup_size invocations.
Launched(wg) == 0..(wg * result.engine.workgroup_size - 1)

\* Faulty variant: the clear zeroes the count buffer bound at construction,
\* whatever buffer the command names.
ClearBuffer_bound ==
    /\ pending = {}
    /\ queue # <<>>
    /\ Head(queue).op = "clear"
    /\ count_buffer' = [count_buffer EXCEPT !.data = Zeroed(B)]
    /\ stage' = Head(queue)
    /\ queue' = Tail(queue)
    /\ UNCHANGED <<host, other_buffer, planner, device_resources, values_buffer,
                   workgroup_size, result, sorting_id, encoder, pending,
                   dispatched>>

\* clear_buffer(count_buffer, 0, None): every element of the buffer the
\* command names, dispatch_work's count_buffer argument, becomes 0.
ClearBuffer ==
    /\ pending = {}
    /\ queue # <<>>
    /\ Head(queue).op = "clear"
    /\ count_buffer' = IF Head(queue).target = "count"
                          THEN [count_buffer EXCEPT !.data = Zeroed(B)]
                          ELSE count_buffer
    /\ other_buffer' = IF Head(queue).target = "other"
                          THEN [other_buffer EXCEPT !.data = Zeroed(BufLen(other_buffer))]
                          ELSE other_buffer
    /\ stage' = Head(queue)
    /\ queue' = Tail(queue)
    /\ UNCHANGED <<host, planner, device_resources, values_buffer, workgroup_size,
                   result, sorting_id, encoder, pending, dispatched>>

\* The next dispatch starts once the stage before it has completed.  Count
\* and sort run one invocation per element (invocations past the end of the
\* values do nothing); scan and propagate are stepped one work-group at a time.
BeginDispatch ==
    /\ pending = {}
    /\ queue # <<>>
    /\ Head(queue).op # "clear"
    /\ stage' = Head(queue)
    /\ queue' = Tail(queue)
    /\ pending' = IF Head(queue).op \in {"count", "sort"}
                     THEN {i \in Launched(Head(queue).wg) :
                               i \in DOMAIN Data(result.engine.counting_bind_group[1])}
                     ELSE 0..(Head(queue).wg - 1)
    /\ UNCHANGED <<host, other_buffer, planner, device_resources, values_buffer, count_buffer, workgroup_size, result,
                   sorting_id, encoder, dispatched>>

\* Faulty variant: the increment is a plain read-modify-write, so it can be
\* lost when another invocation of the same key is still running.
CountInvocation_racy(i) ==
    /\ stage.op = "count"
    /\ i \in pending
    /\ LET v == values_buffer.data[i]
           raced == \E j \in pending \ {i} : values_buffer.data[j] = v
       IN  \E lost \in {TRUE, FALSE} :
               count_buffer' =
                   IF v \in DOMAIN count_buffer.data /\ ~(lost /\ raced)
                       THEN [count_buffer EXCEPT !.data[v] = @ + 1]
                       ELSE count_buffer
    /\ pending' = pending \ {i}
    /\ UNCHANGED <<host, other_buffer, planner, device_resources, values_buffer,
                   sorting_id, workgroup_size, result, encoder, queue, stage,
                   dispatched>>

\* ---- count kernel, bound to counting_bind_group (0: the keys, read only;
\* 1: the counters): atomicAdd(&count[values[i]], 1)
CountInvocation(i) ==
    /\ stage.op = "count"
    /\ i \in pending
    /\ LET keys == Data(result.engine.counting_bind_group[1])
           counters == result.engine.counting_bind_group[2]
           v == keys[i]
       IN  Store(counters,
                 IF v \in DOMAIN Data(counters)
                     THEN [Data(counters) EXCEPT ![v] = @ + 1]
                     ELSE Data(counters))
    /\ pending' = pending \ {i}
    /\ UNCHANGED <<host, other_buffer, planner, device_resources, workgroup_size, result,
                   encoder, queue, stage, dispatched>>

\* ---- scan kernels
\* Element j of the level-L array lives in place, at the last slot of the
\* j-th block of width^L counters.
LevelIndex(j, level) == (j + 1) * Pow(result.engine.workgroup_size, level) - 1

\* The slots of work-group g at a level that exist in the count buffer, in
\* local-invocation order.
GroupSlots(g, level) ==
    LET w == result.engine.workgroup_size
        live == {l \in 0..(w - 1) : LevelIndex(g * w + l, level) < B}
    IN  [k \in 1..Cardinality(live) |-> LevelIndex(g * w + k - 1, level)]

\* Faulty variant: a pass updates the slots one after the other in place, so
\* a slot reads what the same pass has already written.
RECURSIVE KoggeStonePass_in_place_from(_, _, _)
KoggeStonePass_in_place_from(xs, d, k) ==
    IF k > Len(xs)
        THEN xs
        ELSE KoggeStonePass_in_place_from(
                 IF k > d THEN [xs EXCEPT ![k] = xs[k] + xs[k - d]] ELSE xs,
                 d, k + 1)

KoggeStonePass_in_place(xs, d) == KoggeStonePass_in_place_from(xs, d, 1)

\* One Kogge-Stone pass at stride d over the group's values: every slot at
\* distance >= d from the start adds the value d places before it, all reads
\* preceding all writes.
KoggeStonePass(xs, d) ==
    [k \in 1..Len(xs) |-> IF k > d THEN xs[k] + xs[k - d] ELSE xs[k]]

RECURSIVE KoggeStone(_, _, _)
KoggeStone(xs, d, w) ==
    IF d >= w THEN xs ELSE KoggeStone(KoggeStonePass(xs, d), 2 * d, w)

\* workgroup_scan at a level, one work-group, bound to
\* count_buffer_bind_group: the inclusive scan of the group's slots, strides
\* 1, 2, 4, .. below the width.
ScanWorkgroup(g) ==
    /\ stage.op = "scan"
    /\ g \in pending
    /\ LET counters == result.engine.count_buffer_bind_group[1]
           slots == GroupSlots(g, stage.level)
           xs == [k \in 1..Len(slots) |-> Data(counters)[slots[k]]]
           ys == KoggeStone(xs, 1, result.engine.workgroup_size)
       IN  Store(counters,
                 [b \in DOMAIN Data(counters) |->
                     IF \E k \in 1..Len(slots) : slots[k] = b
                         THEN ys[CHOOSE k \in 1..Len(slots) : slots[k] = b]
                         ELSE Data(counters)[b]])
    /\ pending' = pending \ {g}
    /\ UNCHANGED <<host, other_buffer, planner, device_resources, workgroup_size, result,
                   encoder, queue, stage, dispatched>>

\* Faulty variant: every slot of the group, its last included, adds the
\* preceding group's total.
PropagateWorkgroup_adds_to_last(g) ==
    /\ stage.op = "propagate"
    /\ g \in pending
    /\ LET w == result.engine.workgroup_size
           slots == GroupSlots(g, stage.level)
           carry == LevelIndex(g * w - 1, stage.level)
           targets == {slots[k] : k \in 1..Len(slots)}
       IN  count_buffer' =
               IF g = 0
                   THEN count_buffer
                   ELSE [count_buffer EXCEPT !.data =
                            [b \in DOMAIN count_buffer.data |->
                                IF b \in targets
                                    THEN count_buffer.data[b] + count_buffer.data[carry]
                                    ELSE count_buffer.data[b]]]
    /\ pending' = pending \ {g}
    /\ UNCHANGED <<host, other_buffer, planner, device_resources, values_buffer, sorting_id, workgroup_size,
                   result, encoder, queue, stage, dispatched>>

\* workgroup_propagate at a level, one work-group, bound to
\* count_buffer_bind_group: every slot of the group but its last (which
\* belongs to the level above and is already final) adds the scanned total of
\* the preceding group; the first group adds nothing.
PropagateWorkgroup(g) ==
    /\ stage.op = "propagate"
    /\ g \in pending
    /\ LET counters == result.engine.count_buffer_bind_group[1]
           w == result.engine.workgroup_size
           slots == GroupSlots(g, stage.level)
           carry == LevelIndex(g * w - 1, stage.level)
           targets == {slots[k] : k \in {k \in 1..Len(slots) : k < w}}
       IN  Store(counters,
                 IF g = 0
                     THEN Data(counters)
                     ELSE [b \in DOMAIN Data(counters) |->
                              IF b \in targets
                                  THEN Data(counters)[b] + Data(counters)[carry]
                                  ELSE Data(counters)[b]])
    /\ pending' = pending \ {g}
    /\ UNCHANGED <<host, other_buffer, planner, device_resources, workgroup_size, result,
                   encoder, queue, stage, dispatched>>

\* Faulty variant: the slot is the pre-decrement counter itself.
SortInvocation_slot_is_counter(i) ==
    /\ stage.op = "sort"
    /\ i \in pending
    /\ LET v == values_buffer.data[i]
           old == IF v \in DOMAIN count_buffer.data THEN count_buffer.data[v] ELSE 0
       IN  /\ count_buffer' =
                  IF v \in DOMAIN count_buffer.data
                      THEN [count_buffer EXCEPT !.data[v] = old - 1]
                      ELSE count_buffer
           /\ sorting_id' =
                  IF old \in DOMAIN sorting_id
                      THEN [sorting_id EXCEPT ![old] = i]
                      ELSE sorting_id
    /\ pending' = pending \ {i}
    /\ UNCHANGED <<host, other_buffer, planner, device_resources, values_buffer, workgroup_size, result,
                   encoder, queue, stage, dispatched>>

\* Faulty variant: Scatter's invocations run one after the other in index
\* order, so no two of them race.
SortInvocation_in_index_order(i) ==
    /\ stage.op = "sort"
    /\ i \in pending
    /\ \A j \in pending : i <= j
    /\ LET v == values_buffer.data[i]
           old == IF v \in DOMAIN count_buffer.data THEN count_buffer.data[v] ELSE 0
       IN  /\ count_buffer' =
                  IF v \in DOMAIN count_buffer.data
                      THEN [count_buffer EXCEPT !.data[v] = old - 1]
                      ELSE count_buffer
           /\ sorting_id' =
                  IF (old - 1) \in DOMAIN sorting_id
                      THEN [sorting_id EXCEPT ![old - 1] = i]
                      ELSE sorting_id
    /\ pending' = pending \ {i}
    /\ UNCHANGED <<host, other_buffer, planner, device_resources, values_buffer, workgroup_size, result,
                   encoder, queue, stage, dispatched>>

\* ---- sort kernel, bound to counting_bind_group (group 0) and
\* sorting_bind_group (group 1):
\* sorting_id[atomicSub(&count[values[i]], 1) - 1] = i.
\* A store outside the buffer is either dropped or lands on any slot.
SortSlots(old, ids) ==
    IF (old - 1) \in DOMAIN ids
        THEN {old - 1}
        ELSE {-1} \cup DOMAIN ids

SortInvocation(i) ==
    /\ stage.op = "sort"
    /\ i \in pending
    /\ LET keys == Data(result.engine.counting_bind_group[1])
           counters == result.engine.counting_bind_group[2]
           ids == result.engine.sorting_bind_group[1]
           v == keys[i]
           old == IF v \in DOMAIN Data(counters) THEN Data(counters)[v] ELSE 0
       IN  \E slot \in SortSlots(old, Data(ids)) :
               Store2(counters,
                      IF v \in DOMAIN Data(counters)
                          THEN [Data(counters) EXCEPT ![v] = old - 1]
                          ELSE Data(counters),
                      ids,
                      IF slot = -1
                          THEN Data(ids)
                          ELSE [Data(ids) EXCEPT ![slot] = i])
    /\ pending' = pending \ {i}
    /\ UNCHANGED <<host, other_buffer, planner, device_resources, workgroup_size, result,
                   encoder, queue, stage, dispatched>>

\* ===================================================== Specifications

AllUsages == {STORAGE, COPY_SRC, COPY_DST}

TypeOK ==
    /\ values_buffer.usage \subseteq AllUsages
    /\ count_buffer.usage \subseteq AllUsages
    /\ result.tag \in {"NotCreated", "Ok", "Err"}
    /\ dispatched \in 0..MaxDispatch

\* The pipeline specification: buffers as the tests create them (values
\* STORAGE | COPY_SRC, counts STORAGE | COPY_SRC | COPY_DST), every key in [0, B).
Init ==
    /\ \E n \in 1..MaxN, b \in 1..MaxB :
         /\ \E data \in [0..(n - 1) -> 0..(b - 1)] :
              values_buffer = [usage |-> {STORAGE, COPY_SRC}, data |-> data]
         /\ \E c \in CountInitVals :
              count_buffer = [usage |-> {STORAGE, COPY_SRC, COPY_DST},
                              data |-> [i \in 0..(b - 1) |-> c]]
    /\ workgroup_size \in Widths
    /\ result = NotCreated
    /\ sorting_id = <<>>
    /\ device_resources = {}
    /\ encoder = <<>>
    /\ queue = <<>>
    /\ stage = Idle
    /\ pending = {}
    /\ dispatched = 0
    /\ planner = PlannerIdle
    /\ other_buffer = OtherBuffer(count_buffer)
    /\ host = HostIdle("check_sorting")

Next ==
    \/ New
    \/ DispatchWork
    \/ Submit
    \/ ClearBuffer
    \/ BeginDispatch
    \/ \E i \in 0..(MaxN + 1) : CountInvocation(i)
    \/ \E g \in 0..(MaxB + 1) : ScanWorkgroup(g)
    \/ \E g \in 0..(MaxB + 1) : PropagateWorkgroup(g)
    \/ \E i \in 0..(MaxN + 1) : SortInvocation(i)

Spec == Init /\ [][Next]_vars

\* ---- The pipeline with dispatch_work's count_buffer argument left to the
\* caller: the count buffer given to new, or another buffer.
BufferArgs == {"count", "other"}

InitArg ==
    /\ \E n \in 1..MaxN, b \in 1..MaxArgB :
         /\ \E data \in [0..(n - 1) -> 0..(b - 1)] :
              values_buffer = [usage |-> {STORAGE, COPY_SRC}, data |-> data]
         /\ \E c \in CountInitVals :
              count_buffer = [usage |-> {STORAGE, COPY_SRC, COPY_DST},
                              data |-> [i \in 0..(b - 1) |-> c]]
    /\ workgroup_size \in Widths
    /\ result = NotCreated
    /\ sorting_id = <<>>
    /\ device_resources = {}
    /\ encoder = <<>>
    /\ queue = <<>>
    /\ stage = Idle
    /\ pending = {}
    /\ dispatched = 0
    /\ planner = PlannerIdle
    /\ other_buffer = OtherBuffer(count_buffer)
    /\ host = HostIdle("check_sorting")

NextArg ==
    \/ New
    \/ \E arg \in BufferArgs : DispatchWorkWith(arg)
    \/ Submit
    \/ ClearBuffer
    \/ BeginDispatch
    \/ \E i \in 0..(MaxN + 1) : CountInvocation(i)
    \/ \E g \in 0..(MaxArgB + 1) : ScanWorkgroup(g)
    \/ \E g \in 0..(MaxArgB + 1) : PropagateWorkgroup(g)
    \/ \E i \in 0..(MaxN + 1) : SortInvocation(i)

SpecArg == InitArg /\ [][NextArg]_vars

\* The construction specification: every combination of usages, count
\* buffers of 0..MaxCountSize elements and the two sizes of the tests.
NewShapes ==
    ({1} \X (0..MaxCountSize)) \cup {<<4096, 4096>>, <<8192, 8192>>}

InitNew ==
    /\ \E shape \in NewShapes, vu \in SUBSET {STORAGE, COPY_SRC},
          cu \in SUBSET AllUsages :
         /\ values_buffer = [usage |-> vu, data |-> Zeroed(shape[1])]
         /\ count_buffer = [usage |-> cu, data |-> Zeroed(shape[2])]
    /\ workgroup_size \in NewWidths
    /\ result = NotCreated
    /\ sorting_id = <<>>
    /\ device_resources = {}
    /\ encoder = <<>>
    /\ queue = <<>>
    /\ stage = Idle
    /\ pending = {}
    /\ dispatched = 0
    /\ planner = PlannerIdle
    /\ other_buffer = OtherBuffer(count_buffer)
    /\ host = HostIdle("check_sorting")

NextNew == New

SpecNew == InitNew /\ [][NextNew]_vars

\* ---- The planner step by step, as new runs it: new with buffers that pass
\* the usage checks, for count buffers of 0 .. MaxCountSize elements and the
\* work-group sizes 1, 2 and 3.
PlannerWidths == {1, 2, 3}

\* let mut count = 1; let mut temp_size = size / workgroup_size;
PlannerStart ==
    /\ result = NotCreated
    /\ planner.pc = "idle"
    /\ COPY_DST \in count_buffer.usage
    /\ STORAGE \in values_buffer.usage
    /\ STORAGE \in count_buffer.usage
    /\ planner' = [pc |-> "loop", count |-> 1,
                   temp_size |-> (BufSize(count_buffer) \div SizeOfU32)
                                     \div workgroup_size]
    /\ UNCHANGED <<host, other_buffer, values_buffer, count_buffer, workgroup_size, result,
                   sorting_id, device_resources, encoder, queue, stage,
                   pending, dispatched>>

\* while temp_size > 0 { count += 1; temp_size /= workgroup_size; }
PlannerLoop ==
    /\ planner.pc = "loop"
    /\ planner.temp_size > 0
    /\ planner.count < MaxPlannerCount
    /\ planner' = [planner EXCEPT !.count = @ + 1,
                                  !.temp_size = @ \div workgroup_size]
    /\ UNCHANGED <<host, other_buffer, values_buffer, count_buffer, workgroup_size, result,
                   sorting_id, device_resources, encoder, queue, stage,
                   pending, dispatched>>

\* count += 1 at the counter's largest value: the addition panics where
\* overflow checks are compiled in and wraps to 0 where they are not.
PlannerOverflow ==
    /\ planner.pc = "loop"
    /\ planner.temp_size > 0
    /\ planner.count = MaxPlannerCount
    /\ \E build \in {"overflow-checks", "wrapping"} :
           planner' = IF build = "overflow-checks"
                          THEN [planner EXCEPT !.pc = "panicked"]
                          ELSE [planner EXCEPT !.count = 0,
                                               !.temp_size = @ \div workgroup_size]
    /\ UNCHANGED <<host, other_buffer, values_buffer, count_buffer, workgroup_size, result,
                   sorting_id, device_resources, encoder, queue, stage,
                   pending, dispatched>>

\* The loop is left with temp_size = 0; new compares the count with the
\* limit and returns the error or builds the engine.
PlannerReturn ==
    /\ planner.pc = "loop"
    /\ planner.temp_size = 0
    /\ planner' = [planner EXCEPT !.pc = "done"]
    /\ result' = IF planner.count > MaxLevels
                     THEN Err(ToManyScanThenPropagateLevels(
                                  BufSize(count_buffer) \div SizeOfU32,
                                  workgroup_size, planner.count))
                     ELSE Ok(Engine(values_buffer, count_buffer, workgroup_size,
                                    planner.count))
    /\ sorting_id' = IF result'.tag = "Ok"
                        THEN Zeroed(result'.engine.sorting_id_size \div SizeOfU32)
                        ELSE sorting_id
    /\ device_resources' = IF result'.tag = "Ok"
                              THEN created_resources(result'.engine)
                              ELSE device_resources
    /\ UNCHANGED <<host, other_buffer, values_buffer, count_buffer, workgroup_size,
                   encoder, queue, stage, pending, dispatched>>

InitPlanner ==
    /\ \E b \in 0..MaxCountSize :
         /\ values_buffer = [usage |-> {STORAGE, COPY_SRC}, data |-> Zeroed(1)]
         /\ count_buffer = [usage |-> {STORAGE, COPY_SRC, COPY_DST},
                            data |-> Zeroed(b)]
    /\ workgroup_size \in PlannerWidths
    /\ result = NotCreated
    /\ sorting_id = <<>>
    /\ device_resources = {}
    /\ encoder = <<>>
    /\ queue = <<>>
    /\ stage = Idle
    /\ pending = {}
    /\ dispatched = 0
    /\ planner = PlannerIdle
    /\ other_buffer = OtherBuffer(count_buffer)
    /\ host = HostIdle("check_sorting")

NextPlanner ==
    \/ PlannerStart
    \/ PlannerLoop
    \/ PlannerOverflow
    \/ PlannerReturn

\* A running call keeps running: the thread in new is scheduled.
SpecPlanner == InitPlanner /\ [][NextPlanner]_vars /\ WF_vars(NextPlanner)

\* ===================================================== readback
\* The caller's readback of the three staging buffers (check_sorting of the
\* tests, App::update of the demo; the two run the same steps).  The device
\* runs the submitted command buffers in order and resolves the map
\* requests while the host polls; a map request succeeds or fails.
CommandBuffers == <<"init values", "counting and scan", "copy buffer">>
MapResults == {"Ok", "BufferAsyncError"}
Programs == {"check_sorting", "App::update"}

HostEngineVars == <<values_buffer, count_buffer, workgroup_size, result,
                    sorting_id, device_resources, encoder, queue, stage,
                    pending, dispatched, planner, other_buffer>>

\* commands.push(...) three times, queue.submit(commands)
HostSubmit ==
    /\ host.pc = "record"
    /\ host' = [host EXCEPT !.pc = "poll_submission",
                            !.commands = CommandBuffers,
                            !.executed = <<>>,
                            !.staging = [s \in StagingNames |-> Staging],
                            !.channel = [s \in StagingNames |-> <<>>],
                            !.received = [s \in StagingNames |-> "none"]]
    /\ UNCHANGED HostEngineVars

\* The device runs the next command buffer of the submission; the copy
\* buffer commands fill the three staging buffers.
DeviceExecute ==
    /\ host.commands # <<>>
    /\ host' = [host EXCEPT
                   !.commands = Tail(@),
                   !.executed = Append(@, Head(host.commands)),
                   !.staging = IF Head(host.commands) = "copy buffer"
                                   THEN [s \in StagingNames |->
                                            [@[s] EXCEPT !.copied = TRUE]]
                                   ELSE @]
    /\ UNCHANGED HostEngineVars

\* device.poll(WaitForSubmissionIndex(index)) returns
HostPollSubmission ==
    /\ host.pc = "poll_submission"
    /\ host.commands = <<>>
    /\ host' = [host EXCEPT !.pc = "map_value"]
    /\ UNCHANGED HostEngineVars

\* map_buffer: the value and count requests carry a callback that sends the
\* result on a channel; the sorting request carries none.
HostMapBuffer(k) ==
    LET s == StagingBuffers[k]
    IN  /\ host.pc = "map_" \o s
        /\ host' = [host EXCEPT
                       !.pc = IF k < 3 THEN "map_" \o StagingBuffers[k + 1]
                                       ELSE "poll_wait",
                       !.staging[s].map = "pending",
                       !.staging[s].callback = (s # "sorting")]
        /\ UNCHANGED HostEngineVars

\* While the host is in device.poll(Wait), the device resolves a map
\* request and runs its callback, if it has one.
DeviceResolveMap(s, r) ==
    /\ host.pc = "poll_wait"
    /\ host.staging[s].map = "pending"
    /\ host' = [host EXCEPT
                   !.staging[s].map = r,
                   !.channel[s] = IF host.staging[s].callback
                                      THEN Append(@, r) ELSE @]
    /\ UNCHANGED HostEngineVars

\* device.poll(Wait) returns: no map request is outstanding
HostPollWait ==
    /\ host.pc = "poll_wait"
    /\ \A s \in StagingNames : host.staging[s].map # "pending"
    /\ host' = [host EXCEPT !.pc = "recv_value"]
    /\ UNCHANGED HostEngineVars

\* receiver.recv().expect(..).expect(..): blocks on the channel, panics on
\* a failed result
HostRecv(k) ==
    LET s == StagingBuffers[k]
    IN  /\ k \in 1..2
        /\ host.pc = "recv_" \o s
        /\ host.channel[s] # <<>>
        /\ host' = [host EXCEPT
                       !.channel[s] = Tail(@),
                       !.received[s] = Head(host.channel[s]),
                       !.pc = IF Head(host.channel[s]) # "Ok" THEN "panicked"
                              ELSE IF k = 1 THEN "recv_count"
                              ELSE "read_value"]
        /\ UNCHANGED HostEngineVars

\* read_and_unmap_buffer: reads the mapped range and unmaps.  On a buffer
\* whose mapping failed the call either panics or returns what the staging
\* memory holds.
HostRead(k) ==
    LET s == StagingBuffers[k]
        next == IF k < 3 THEN "read_" \o StagingBuffers[k + 1] ELSE "done"
    IN  /\ host.pc = "read_" \o s
        /\ \/ host' = [host EXCEPT !.pc = next,
                                   !.staging[s].read = TRUE]
           \/ /\ host.staging[s].map # "Ok"
              /\ host' = [host EXCEPT !.pc = "panicked"]
        /\ UNCHANGED HostEngineVars

\* The demo sorts again when its button sets do_sorting; the test runs once.
AppTrigger ==
    /\ host.program = "App::update"
    /\ host.pc = "done"
    /\ host.runs + 1 < MaxRuns
    /\ host' = [host EXCEPT !.pc = "record", !.runs = @ + 1]
    /\ UNCHANGED HostEngineVars

InitReadback ==
    /\ values_buffer = [usage |-> {STORAGE, COPY_SRC}, data |-> Zeroed(1)]
    /\ count_buffer = [usage |-> {STORAGE, COPY_SRC, COPY_DST},
                       data |-> Zeroed(1)]
    /\ workgroup_size = 2
    /\ result = NotCreated
    /\ sorting_id = <<>>
    /\ device_resources = {}
    /\ encoder = <<>>
    /\ queue = <<>>
    /\ stage = Idle
    /\ pending = {}
    /\ dispatched = 0
    /\ planner = PlannerIdle
    /\ other_buffer = OtherBuffer(count_buffer)
    /\ \E program \in Programs : host = HostIdle(program)

NextReadback ==
    \/ HostSubmit
    \/ DeviceExecute
    \/ HostPollSubmission
    \/ \E k \in 1..3 : HostMapBuffer(k)
    \/ \E s \in StagingNames, r \in MapResults : DeviceResolveMap(s, r)
    \/ HostPollWait
    \/ \E k \in 1..2 : HostRecv(k)
    \/ \E k \in 1..3 : HostRead(k)
    \/ AppTrigger

SpecReadback == InitReadback /\ [][NextReadback]_vars

\* ===================================================== CPU reference
\* The sequential counting sort the tests compare the device's buffers with.

RECURSIVE count_values_from(_, _, _)
count_values_from(values, count, i) ==
    IF i \notin DOMAIN values
        THEN count
        ELSE count_values_from(values,
                               [count EXCEPT ![values[i]] = @ + 1], i + 1)

count_values(values, count_size) ==
    count_values_from(values, Zeroed(count_size), 0)

RECURSIVE cpu_prefix_sum_from(_, _)
cpu_prefix_sum_from(count, i) ==
    IF i \notin DOMAIN count
        THEN count
        ELSE cpu_prefix_sum_from([count EXCEPT ![i] = @ + count[i - 1]], i + 1)

cpu_prefix_sum(count) == cpu_prefix_sum_from(count, 1)

RECURSIVE sorting_id_sort_from(_, _, _, _)
sorting_id_sort_from(values, ids, count_after_sort, i) ==
    IF i \notin DOMAIN values
        THEN [sorting_id |-> ids, count_after_sort |-> count_after_sort]
        ELSE sorting_id_sort_from(
                 values,
                 [ids EXCEPT ![count_after_sort[values[i]] - 1] = i],
                 [count_after_sort EXCEPT ![values[i]] = @ - 1],
                 i + 1)

sorting_id_sort_from_count(values, count) ==
    sorting_id_sort_from(values, Zeroed(Cardinality(DOMAIN values)), count, 0)

counting_sort_on_cpu(values, count_size) ==
    LET count_cpu == cpu_prefix_sum(count_values(values, count_size))
        sorted == sorting_id_sort_from_count(values, count_cpu)
    IN  [count |-> count_cpu, sorting_id |-> sorted.sorting_id,
         count_after_sort |-> sorted.count_after_sort]

is_sorted_by_id(values, ids) ==
    \A i \in 1..(Cardinality(DOMAIN ids) - 1) :
        ~(values[ids[i]] < values[ids[i - 1]])

\* ===================================================== Properties

Keys == values_buffer.data
Counts == count_buffer.data

\* The number of elements whose key is b.
Histogram(b) == Cardinality({i \in DOMAIN Keys : Keys[i] = b})

\* The stage the device last started has completed all its invocations.
StageComplete(op) == stage.op = op /\ pending = {}

\* The count stage of an invocation has completed, the scans not yet begun.
CountDone == StageComplete("count")

\* Every scan and propagate has completed and the sort is next.
BeforeScatter == pending = {} /\ queue # <<>> /\ Head(queue).op = "sort"

\* A whole invocation has completed.
Done == StageComplete("sort")

Levels == Len(result.engine.workgroup_scan_pipelines)

\* C1 Permutation: after a complete invocation the sorting id buffer has N
\* slots and holds each index of [0, N) exactly once.
C1_Permutation ==
    Done =>
        /\ DOMAIN sorting_id = 0..(N - 1)
        /\ \A k \in 0..(N - 1) :
               Cardinality({s \in DOMAIN sorting_id : sorting_id[s] = k}) = 1

\* A complete invocation on a full-size input with a repeated key, whose
\* result is not the identity.
C1_Witness ==
    /\ Done
    /\ N = MaxN
    /\ \E i, j \in DOMAIN Keys : i # j /\ Keys[i] = Keys[j]
    /\ sorting_id[0] # 0

\* C2 Grouping: after a complete invocation the keys read through the
\* sorting ids are non-decreasing, whatever N, B and the interleaving.
C2_Grouping ==
    Done =>
        \A k \in 1..(N - 1) : Keys[sorting_id[k - 1]] <= Keys[sorting_id[k]]

\* A complete invocation with B # N, keys given in decreasing order, over
\* several scan levels.
C2_Witness ==
    /\ Done
    /\ B # N
    /\ N >= 2
    /\ Keys[0] > Keys[1]
    /\ Levels >= 3
    /\ is_sorted_by_id(Keys, sorting_id)

\* C3 Count correctness: once the count stage has completed, every counter
\* holds the number of elements with that key.
C3_CountCorrect ==
    CountDone => \A b \in DOMAIN Counts : Counts[b] = Histogram(b)

\* The count stage completed with two elements having hit the same counter
\* and another counter left at 0.
C3_Witness ==
    /\ CountDone
    /\ \E b \in DOMAIN Counts : Counts[b] >= 2
    /\ \E b \in DOMAIN Counts : Counts[b] = 0

\* The inclusive running sum of the histogram up to bucket b.
RunningSum(b) == Cardinality({i \in DOMAIN Keys : Keys[i] <= b})

\* C4 Prefix sum: after the scans and propagates and before the sort, every
\* counter holds the sum of the histogram over the buckets up to its own.
C4_PrefixSum ==
    BeforeScatter =>
        /\ \A b \in DOMAIN Counts : Counts[b] = RunningSum(b)
        /\ Counts = cpu_prefix_sum(count_values(Keys, B))

\* Four levels, with keys in different buckets below the last.
C4_Witness ==
    /\ BeforeScatter
    /\ Levels = 4
    /\ \E b \in DOMAIN Counts : b + 1 < B /\ Counts[b] = 1
    /\ Counts[B - 1] = 2

\* The number of elements whose key is below b: where bucket b starts.
StartOffset(b) == Cardinality({i \in DOMAIN Keys : Keys[i] < b})

\* C5 Count buffer after the sort: every counter holds its bucket's start
\* offset, which is the count_after_sort of the sequential reference.
C5_CountAfterSort ==
    Done =>
        /\ \A b \in DOMAIN Counts : Counts[b] = StartOffset(b)
        /\ Counts = counting_sort_on_cpu(Keys, B).count_after_sort

\* A complete invocation over three levels or more whose last bucket starts
\* after every element but one.
C5_Witness ==
    /\ Done
    /\ Levels >= 3
    /\ N >= 2
    /\ Counts[B - 1] = N - 1
    /\ Counts[0] = 0

\* ---------------------------------------------------- construction

Created == result.tag # "NotCreated"

\* The three usages new checks are present.
CheckedUsagesPresent ==
    /\ COPY_DST \in count_buffer.usage
    /\ STORAGE \in values_buffer.usage
    /\ STORAGE \in count_buffer.usage

\* No engine and no device resource came out of the call.
NoEngine == result.tag = "Err" /\ sorting_id = <<>>

PlannedLevels == scan_then_propagate_level_count(B, workgroup_size)

C7_Rejects4096By32 ==
    (Created /\ CheckedUsagesPresent /\ B = 4096 /\ workgroup_size = 32) =>
        /\ NoEngine
        /\ result.error.kind = "ToManyScanThenPropagateLevels"
        /\ result.error.size = 4096
        /\ result.error.workgroup_size = 32
        /\ result.error.levels = PlannedLevels

\* C8 Concrete acceptance: with N = B = 8192 and a work-group width of 128,
\* the checked usages present, new returns an engine of at most 4 levels.
C8_Accepts8192By128 ==
    (Created /\ CheckedUsagesPresent
        /\ N = 8192 /\ B = 8192 /\ workgroup_size = 128) =>
        /\ result.tag = "Ok"
        /\ Levels <= 4
        /\ Levels = PlannedLevels

\* The engine built for N = B = 8192 and width 128, from buffers with the
\* usages the tests give them.
C8_Witness ==
    /\ Created
    /\ N = 8192 /\ B = 8192 /\ workgroup_size = 128
    /\ values_buffer.usage = {STORAGE, COPY_SRC}
    /\ count_buffer.usage = {STORAGE, COPY_SRC, COPY_DST}
    /\ result.tag = "Ok"
    /\ Levels = 2

\* C9 Capability rejection: a count buffer without COPY_DST makes new return
\* the missing-usage error naming COPY_DST and the count buffer, whatever
\* the other usages and the sizes, and no engine.
C9_CountCopyDst ==
    (Created /\ COPY_DST \notin count_buffer.usage) =>
        /\ NoEngine
        /\ result.error = MissingBufferUsage(COPY_DST, "Count buffer")

\* The rejection of a count buffer without COPY_DST when the values buffer
\* lacks STORAGE too and the sizes need more than 4 levels.
C9_Witness ==
    /\ Created
    /\ COPY_DST \notin count_buffer.usage
    /\ STORAGE \notin values_buffer.usage
    /\ STORAGE \notin count_buffer.usage
    /\ PlannedLevels > 4
    /\ result.tag = "Err"
    /\ result.error.usage = COPY_DST

\* C10 as claimed: a values buffer without COPY_SRC makes new fail with the
\* missing-usage error naming COPY_SRC and the values buffer.
C10_ValuesCopySrcRejected ==
    (Created /\ COPY_SRC \notin values_buffer.usage) =>
        /\ result.tag = "Err"
        /\ result.error = MissingBufferUsage(COPY_SRC, "Values buffer")

\* C10 amended: new never reports COPY_SRC; the usage it requires of the
\* values buffer is STORAGE, whose absence (the count buffer having COPY_DST)
\* is the missing-usage error naming STORAGE and the values buffer; a values
\* buffer with STORAGE and without COPY_SRC is accepted when the count
\* buffer's usages and the level limit pass.
C10_ValuesStorageOnly ==
    Created =>
        /\ (result.tag = "Err" /\ result.error.kind = "MissingBufferUsage")
               => result.error.usage # COPY_SRC
        /\ (STORAGE \notin values_buffer.usage
                /\ COPY_DST \in count_buffer.usage)
               => /\ NoEngine
                  /\ result.error = MissingBufferUsage(STORAGE, "Values buffer")
        /\ (values_buffer.usage = {STORAGE}
                /\ {COPY_DST, STORAGE} \subseteq count_buffer.usage
                /\ PlannedLevels <= 4)
               => result.tag = "Ok"

\* An engine built on a values buffer that has STORAGE and no COPY_SRC.
C10_Witness ==
    /\ Created
    /\ values_buffer.usage = {STORAGE}
    /\ result.tag = "Ok"

\* ---------------------------------------------------------------- C11
\* C11: whenever new returns an error (a missing usage or too many levels)
\* it has created nothing on the device -- no sorting id buffer, no bind
\* group, no pipeline -- and it returns no engine; what a successful new
\* creates is created after the last error return.
C11_FailFast ==
    /\ result.tag = "Err" =>
           /\ device_resources = {}
           /\ sorting_id = <<>>
           /\ "engine" \notin DOMAIN result
    /\ result.tag = "Ok" =>
           /\ device_resources = created_resources(result.engine)
           /\ Resource("buffer", "sorting id buffer", 0) \in device_resources

\* new has returned the last of its errors, the level limit, and the device
\* holds nothing.
C11_Witness ==
    /\ result.tag = "Err"
    /\ result.error.kind = "ToManyScanThenPropagateLevels"
    /\ device_resources = {}
    /\ sorting_id = <<>>

\* ---------------------------------------------------------------- C12
\* The stages of one invocation, each as <<stage, level>>: the clear, Count,
\* Workgroup-Scan for levels 0 .. levels-1, Propagate for levels
\* levels-2 .. 0, Scatter.
StageOrder(levels) ==
    <<<<"clear", 0>>, <<"count", 0>>>>
    \o [l \in 1..levels |-> <<"scan", l - 1>>]
    \o [l \in 1..(levels - 1) |-> <<"propagate", levels - 1 - l>>]
    \o <<<<"sort", 0>>>>

StagesOf(commands) ==
    [k \in 1..Len(commands) |-> <<commands[k].op, commands[k].level>>]

\* A stage begins: the device takes the next command from the queue.
StageBegins == queue # <<>> /\ queue' = Tail(queue) /\ stage' = Head(queue)

\* C12: the commands one dispatch_work call records are the clear, Count,
\* the scans in ascending level order, the propagates in descending level
\* order, Scatter; the device runs them in that order, and no stage begins
\* before every invocation of the stage before it has completed.
C12_StageOrder ==
    /\ [](encoder # <<>> => StagesOf(encoder) = StageOrder(Levels))
    /\ [](queue # <<>> =>
              \E k \in 1..Len(StageOrder(Levels)) :
                  /\ StagesOf(queue)
                         = SubSeq(StageOrder(Levels), k, Len(StageOrder(Levels)))
                  /\ k > 1 => <<stage.op, stage.level>> = StageOrder(Levels)[k - 1])
    /\ [][queue' # queue /\ queue # <<>> => pending = {} /\ StageBegins]_vars

\* Three levels or more: the last propagate, level 0, is running after the
\* propagate of a higher level, and only Scatter is left.
C12_Witness ==
    /\ result.tag = "Ok"
    /\ Levels >= 3
    /\ stage.op = "propagate" /\ stage.level = 0
    /\ pending # {}
    /\ StagesOf(queue) = <<<<"sort", 0>>>>

\* ---------------------------------------------------------------- C13
\* The slot of the sorting ids that holds element i.
SlotOf(i) == CHOOSE s \in DOMAIN sorting_id : sorting_id[s] = i

EqualKeyPairs ==
    {p \in (DOMAIN Keys) \X (DOMAIN Keys) : p[1] < p[2] /\ Keys[p[1]] = Keys[p[2]]}

\* C13: the sort is not stable.  While two elements of equal key are both
\* still to be scattered, either of them can take the next atomic decrement
\* and with it the bucket's highest free slot, so the interleaving decides
\* their order; in a final state both sit in their bucket's slot range, in
\* one order or the other.
C13_NotStable ==
    \A p \in EqualKeyPairs :
        /\ (result.tag = "Ok" /\ stage.op = "sort" /\ {p[1], p[2]} \subseteq pending) =>
               LET top == Counts[Keys[p[1]]] - 1
               IN  /\ ENABLED (SortInvocation(p[1]) /\ sorting_id'[top] = p[1])
                   /\ ENABLED (SortInvocation(p[2]) /\ sorting_id'[top] = p[2])
        /\ (result.tag = "Ok" /\ Done) =>
               /\ SlotOf(p[1]) # SlotOf(p[2])
               /\ \A i \in {p[1], p[2]} :
                      /\ sorting_id[SlotOf(i)] = i
                      /\ StartOffset(Keys[i]) <= SlotOf(i)
                      /\ SlotOf(i) < RunningSum(Keys[i])

\* A final state with two equal-key elements in index order: the later
\* element won the race for the higher slot.
C13_Witness ==
    /\ result.tag = "Ok" /\ Done
    /\ \E p \in EqualKeyPairs : SlotOf(p[1]) < SlotOf(p[2])

\* A final state with the same two elements in the opposite order, the order
\* of the sequential reference sorting_id_sort_from_count.
C13_OppositeOrder ==
    /\ result.tag = "Ok" /\ Done
    /\ \E p \in EqualKeyPairs : SlotOf(p[1]) > SlotOf(p[2])

\* ---------------------------------------------------------------- C14
\* C14: the engine never modifies the values buffer: neither new nor any
\* step of any stage of any dispatch_work invocation changes its contents.
C14_ValuesNeverModified ==
    [][values_buffer'.data = values_buffer.data]_vars

\* A complete invocation over two elements: Count and Scatter have read the
\* keys through counting_bind_group and the sorting ids have been written.
C14_Witness ==
    /\ result.tag = "Ok" /\ Done
    /\ dispatched >= 1
    /\ N = 2
    /\ result.engine.counting_bind_group[1] = "values"
    /\ \E s \in DOMAIN sorting_id : sorting_id[s] = 1

\* ---------------------------------------------------------------- C15
\* C15: an invocation's outcome does not depend on earlier invocations or on
\* what the count and sorting id buffers held before it.  Whatever the
\* invocation's number, Count ends with the histogram of the keys, and the
\* invocation ends with sorting ids that are a permutation of [0, N) grouped
\* by key and with the count buffer the reference computes from the keys alone.
C15_Stateless ==
    (result.tag = "Ok" /\ dispatched >= 1) =>
        /\ CountDone => \A b \in DOMAIN Counts : Counts[b] = Histogram(b)
        /\ Done =>
               /\ {sorting_id[s] : s \in DOMAIN sorting_id} = DOMAIN Keys
               /\ is_sorted_by_id(Keys, sorting_id)
               /\ Counts = counting_sort_on_cpu(Keys, B).count_after_sort

\* The second invocation on the same buffers has completed; it started from
\* the count buffer and the sorting ids the first one left behind.
C15_Witness ==
    /\ result.tag = "Ok" /\ Done
    /\ dispatched = 2
    /\ encoder = <<>> /\ queue = <<>>
    /\ N = 2 /\ Keys[0] = Keys[1]
    /\ Counts = counting_sort_on_cpu(Keys, B).count_after_sort

\* ---------------------------------------------------------------- C16
\* The contents of the three buffers.
BufferContents == <<values_buffer.data, count_buffer.data, sorting_id>>

\* C16: dispatch_work only records.  A call appends its stages to the
\* command batch and touches nothing else: nothing is submitted, no stage
\* starts, the buffers keep their contents as long as the batch is not
\* submitted, and the engine's own fields never change once it is built.
C16_OnlyRecords ==
    /\ [][dispatched' # dispatched =>
              /\ encoder' = encoder \o dispatch_work(result.engine, "count")
              /\ BufferContents' = BufferContents
              /\ <<queue, stage, pending>>' = <<queue, stage, pending>>]_vars
    /\ [][encoder # <<>> => BufferContents' = BufferContents]_vars
    /\ [][result.tag = "Ok" =>
              /\ result' = result
              /\ device_resources' = device_resources
              /\ DOMAIN sorting_id' = DOMAIN sorting_id]_vars

\* dispatch_work has recorded an invocation that is not submitted yet: the
\* count buffer still holds its stale contents and the sorting ids are
\* still as new left them.
C16_Witness ==
    /\ result.tag = "Ok"
    /\ dispatched = 1
    /\ encoder = dispatch_work(result.engine, "count")
    /\ queue = <<>> /\ stage = Idle /\ pending = {}
    /\ \A b \in DOMAIN Counts : Counts[b] = 1
    /\ sorting_id = Zeroed(N)

\* ---------------------------------------------------------------- C17
\* C17: in every successfully constructed engine the sorting id buffer has
\* as many elements as the values buffer, whatever the count buffer's
\* length, before and after any number of dispatch_work invocations.
C17_SortingIdLength ==
    result.tag = "Ok" =>
        /\ result.engine.sorting_id_size = BufSize(values_buffer)
        /\ DOMAIN sorting_id = DOMAIN Keys
        /\ Cardinality(DOMAIN sorting_id) = N

\* Two invocations have completed on a count buffer longer than the values
\* buffer.
C17_Witness ==
    /\ result.tag = "Ok" /\ Done
    /\ dispatched = 2
    /\ B > N
    /\ Cardinality(DOMAIN sorting_id) = N

\* ---------------------------------------------------------------- C18
\* C18: every successfully constructed engine has B <= width * width, B the
\* count buffer's length in elements and width the work-group width.
C18_CountSizeWithinWidthSquared ==
    result.tag = "Ok" => B <= workgroup_size * workgroup_size

\* ---------------------------------------------------------------- C19
\* The elements Scatter has placed so far in this invocation, and the slots
\* of bucket b it has written: those from the bucket's counter up to its end.
Scattered == DOMAIN Keys \ pending
WrittenSlots(b) == Counts[b]..(RunningSum(b) - 1)

\* A Scatter step of element i.
ScatterStep(i) == stage.op = "sort" /\ i \in pending /\ i \notin pending'

\* C19: throughout Scatter every counter count[b] stays within
\* [start(b), end(b)] and the slots from the counter to end(b) hold, one
\* each, the elements of key b scattered so far; every decrement observes a
\* value >= 1, writes the element to the slot one below it, which lies in
\* [start(b), end(b)) and which no element of this invocation has written.
C19_ScatterSlots ==
    /\ [](result.tag = "Ok" /\ stage.op = "sort" =>
              \A b \in DOMAIN Counts :
                  /\ StartOffset(b) <= Counts[b]
                  /\ Counts[b] <= RunningSum(b)
                  /\ {sorting_id[s] : s \in WrittenSlots(b)}
                         = {i \in Scattered : Keys[i] = b}
                  /\ Cardinality(WrittenSlots(b))
                         = Cardinality({i \in Scattered : Keys[i] = b}))
    /\ [][\A i \in DOMAIN Keys :
              ScatterStep(i) =>
                  LET b == Keys[i]
                      old == Counts[b]
                  IN  /\ old >= 1
                      /\ Counts' = [Counts EXCEPT ![b] = old - 1]
                      /\ sorting_id' = [sorting_id EXCEPT ![old - 1] = i]
                      /\ StartOffset(b) <= old - 1
                      /\ old - 1 < RunningSum(b)
                      /\ \A c \in DOMAIN Counts : (old - 1) \notin WrittenSlots(c)]_vars

\* Midway through Scatter: one of two elements of the same key is placed, in
\* the bucket's last slot, and the counter stands between start and end.
C19_Witness ==
    /\ result.tag = "Ok" /\ stage.op = "sort"
    /\ N = 2 /\ Keys[0] = Keys[1]
    /\ Cardinality(pending) = 1
    /\ Counts[Keys[0]] = 1
    /\ sorting_id[1] \in Scattered

\* ---------------------------------------------------------------- C20
CeilDiv(a, b) == (a + b - 1) \div b

\* The number of levels required: the smallest L >= 1 whose level-(L-1)
\* array, of length ceil(size / wg^(L-1)), fits in one work-group.
RECURSIVE RequiredLevelsFrom(_, _, _)
RequiredLevelsFrom(size, wg, L) ==
    IF CeilDiv(size, Pow(wg, L - 1)) <= wg
        THEN L
        ELSE RequiredLevelsFrom(size, wg, L + 1)

RequiredLevels(size, wg) == RequiredLevelsFrom(size, wg, 1)

\* The level count new got from the planner: the number of scan pipelines
\* of the engine, or the count the level-limit error carries.
RecordedLevels ==
    IF result.tag = "Ok"
        THEN Len(result.engine.workgroup_scan_pipelines)
        ELSE result.error.levels

\* C20: for every B >= 1 and width >= 2 the planner's level count is exactly
\* the number of levels required.
C20_PlannerExact ==
    (Created /\ CheckedUsagesPresent /\ B >= 1) =>
        /\ PlannedLevels = RequiredLevels(B, workgroup_size)
        /\ RecordedLevels = RequiredLevels(B, workgroup_size)

\* ---------------------------------------------------------------- C21
IsScan(c) == c.op = "scan"
IsPropagate(c) == c.op = "propagate"

\* C21: for every accepted (B, width) with B >= 1, dispatch_work launches
\* Workgroup-Scan at level L with ceil(B / width^(L+1)) work-groups, for
\* L = 0 .. levels-1: each count is the ceiling of the one before divided by
\* the width, the counts never increase, they depend on B and the width
\* only, and the last level is launched with exactly one work-group.
C21_ScanGeometry ==
    (result.tag = "Ok" /\ encoder # <<>>) =>
        LET scans == SelectSeq(encoder, IsScan)
        IN  /\ Len(scans) = Levels
            /\ \A k \in 1..Len(scans) :
                   /\ scans[k].level = k - 1
                   /\ scans[k].wg = CeilDiv(B, Pow(workgroup_size, k))
                   /\ scans[k].wg = CeilDiv(IF k = 1 THEN B ELSE scans[k - 1].wg,
                                            workgroup_size)
                   /\ k > 1 => scans[k].wg <= scans[k - 1].wg
            /\ scans[Len(scans)].wg = 1

\* Five buckets at width 2: three scans, launched with 3, 2 and 1
\* work-groups.
C21_Witness ==
    /\ result.tag = "Ok"
    /\ B = 5 /\ workgroup_size = 2
    /\ Len(SelectSeq(encoder, IsScan)) = 3
    /\ [k \in 1..3 |-> SelectSeq(encoder, IsScan)[k].wg] = <<3, 2, 1>>

\* ---------------------------------------------------------------- C22
\* C22: every constructed engine holds exactly `levels` Workgroup-Scan
\* programs, for the levels 0 .. levels-1 in that order, with
\* 1 <= levels <= 4, and exactly levels-1 Propagate programs, for every
\* level but the last; the numbers stay what construction made them.
C22_KernelSet ==
    result.tag = "Ok" =>
        LET scans == result.engine.workgroup_scan_pipelines
            propagates == result.engine.workgroup_propagate_pipelines
        IN  /\ Len(scans) = PlannedLevels
            /\ 1 <= Len(scans) /\ Len(scans) <= MaxLevels
            /\ \A k \in 1..Len(scans) : scans[k] = k - 1
            /\ Len(propagates) = Len(scans) - 1
            /\ \A k \in 1..Len(propagates) : propagates[k] = k - 1
            /\ \A c \in {encoder[k] : k \in 1..Len(encoder)}
                        \cup {queue[k] : k \in 1..Len(queue)} \cup {stage} :
                   /\ c.op = "scan" => c.level \in 0..(Len(scans) - 1)
                   /\ c.op = "propagate" => c.level \in 0..(Len(scans) - 2)

\* A four-level engine after two complete invocations: four scan programs
\* and three propagate programs.
C22_Witness ==
    /\ result.tag = "Ok" /\ Done
    /\ dispatched = 2
    /\ result.engine.workgroup_scan_pipelines = <<0, 1, 2, 3>>
    /\ result.engine.workgroup_propagate_pipelines = <<0, 1, 2>>

\* ---------------------------------------------------------------- C23
\* C23: Propagate is launched for the levels levels-2 .. 0, in that order,
\* each with as many work-groups as Workgroup-Scan at the same level; none
\* is launched for the last level, and an engine of a single level, which is
\* the case B < width, launches none at all.
C23_PropagatePairing ==
    (result.tag = "Ok" /\ encoder # <<>>) =>
        LET scans == SelectSeq(encoder, IsScan)
            propagates == SelectSeq(encoder, IsPropagate)
        IN  /\ Len(propagates) = Levels - 1
            /\ \A k \in 1..Len(propagates) :
                   /\ propagates[k].level = Levels - 1 - k
                   /\ propagates[k].level # Levels - 1
                   /\ \E s \in 1..Len(scans) :
                          /\ scans[s].level = propagates[k].level
                          /\ scans[s].wg = propagates[k].wg
            /\ (Levels = 1) <=> (B < workgroup_size)
            /\ Levels = 1 => propagates = <<>>

\* Five buckets at width 2: Propagate at level 1 with 2 work-groups, then at
\* level 0 with 3, as the scans of those levels.
C23_Witness ==
    /\ result.tag = "Ok"
    /\ B = 5 /\ workgroup_size = 2
    /\ encoder # <<>>
    /\ SelectSeq(encoder, IsPropagate)
           = <<Command("propagate", 1, 2), Command("propagate", 0, 3)>>

\* ---------------------------------------------------------------- C24
\* The slots of the count buffer that hold the elements of the level-L
\* array: element j lives in place at slot (j + 1) * width^L - 1.
LevelSlots(level) ==
    {s \in DOMAIN Counts : \E j \in 0..(B - 1) : s = LevelIndex(j, level)}

\* C24: once Propagate[L] has completed, every element of the level-L array
\* holds the inclusive prefix sum over the whole level-L array, which at its
\* slot is the number of keys up to that slot -- the last element of each
\* group included, which is also an element of level L+1 and got its value
\* there: no group total is added twice and none is missed.
C24_PropagateInPlace ==
    (result.tag = "Ok" /\ StageComplete("propagate")) =>
        \A s \in LevelSlots(stage.level) : Counts[s] = RunningSum(s)

\* Propagate[1] has completed in an engine of three levels or more: slot 3,
\* last of the first group of level 1 and an element of level 2, holds its
\* prefix sum, and slot 5, in the second group, has received the first
\* group's total.
C24_Witness ==
    /\ result.tag = "Ok" /\ StageComplete("propagate")
    /\ stage.level = 1 /\ workgroup_size = 2 /\ B >= 6
    /\ Counts[3] = RunningSum(3) /\ Counts[3] >= 1
    /\ Counts[5] = RunningSum(5)
    /\ Counts[5] > Histogram(4) + Histogram(5)

\* ---------------------------------------------------------------- C25
\* What element j of the level-L array holds before Workgroup-Scan[L]: the
\* number of keys in its block of width^L buckets.
LevelElement(j, level) ==
    Cardinality({i \in DOMAIN Keys :
                     /\ j * Pow(workgroup_size, level) <= Keys[i]
                     /\ Keys[i] <= LevelIndex(j, level)})

RECURSIVE GroupSum(_, _, _)
GroupSum(g, l, level) ==
    IF l < 0
        THEN 0
        ELSE LevelElement(g * workgroup_size + l, level) + GroupSum(g, l - 1, level)

\* C25: once Workgroup-Scan[L] has completed, in every work-group of the
\* level-L array, a partially filled last group included, slot j of the
\* group holds the sum of the group's original slots 0 .. j, so the group's
\* last slot holds the group's total.
C25_WorkgroupScan ==
    (result.tag = "Ok" /\ StageComplete("scan")) =>
        \A g \in 0..(B - 1), l \in 0..(workgroup_size - 1) :
            LET s == LevelIndex(g * workgroup_size + l, stage.level)
            IN  s \in DOMAIN Counts => Counts[s] = GroupSum(g, l, stage.level)

\* Width 3, five buckets, keys 0 and 4: after the level-0 scan, two passes,
\* the full first group holds 1, 1, 1 and the partial second group 0, 1.
C25_Witness ==
    /\ result.tag = "Ok" /\ StageComplete("scan")
    /\ stage.level = 0 /\ workgroup_size = 3 /\ B = 5
    /\ Counts = [b \in 0..4 |-> IF b = 3 THEN 0 ELSE 1]
    /\ Histogram(0) = 1 /\ Histogram(4) = 1

\* ---------------------------------------------------------------- C26
\* C26: for every count buffer length B >= 0 and every work-group size >= 1,
\* work-group size 1 with B >= 1 included, the planner terminates, so new
\* returns an engine or an error.
C26_PlannerTerminates ==
    <>(planner.pc = "done" /\ result.tag \in {"Ok", "Err"})

IsCountOrSort(c) == c.op \in {"count", "sort"}

\* C28: Count and Scatter are each launched with ceil(N / width)
\* work-groups: the invocations launched cover every index of [0, N) once,
\* fewer than `width` of them fall at indices >= N, and the number launched
\* is a function of N and the width, not of B.
C28_ElementGeometry ==
    result.tag = "Ok" =>
        /\ encoder # <<>> =>
               /\ Len(SelectSeq(encoder, IsCountOrSort)) = 2
               /\ \A k \in 1..Len(encoder) :
                      IsCountOrSort(encoder[k]) =>
                          encoder[k].wg = CeilDiv(N, workgroup_size)
        /\ IsCountOrSort(stage) =>
               /\ stage.wg = CeilDiv(N, workgroup_size)
               /\ DOMAIN Keys \subseteq Launched(stage.wg)
               /\ Cardinality(Launched(stage.wg) \ DOMAIN Keys) < workgroup_size
               /\ pending \subseteq DOMAIN Keys

\* Two elements at width 3, eight buckets: Scatter was launched with one
\* work-group, whose third invocation falls past the end, and all have run.
C28_Witness ==
    /\ result.tag = "Ok" /\ Done
    /\ N = 2 /\ workgroup_size = 3 /\ B = 8
    /\ stage.wg = 1
    /\ Launched(stage.wg) \ DOMAIN Keys = {2}

\* ---------------------------------------------------------------- C29
\* The clear of an invocation has run and Count is the next stage to start.
CountStarts == result.tag = "Ok" /\ stage.op = "clear"

AllZero(data) == \A b \in DOMAIN data : data[b] = 0

\* The device runs the recorded clear.
ClearStep ==
    /\ queue # <<>> /\ Head(queue).op = "clear"
    /\ stage' = Head(queue) /\ queue' = Tail(queue)

\* C29 as stated: Count starts from an all-zero count buffer if and only if
\* dispatch_work's count_buffer argument is the buffer that was given to new.
C29_ZeroIffSameBuffer ==
    CountStarts => (AllZero(Counts) <=> stage.target = "count")

\* C29, amended: the recorded clear zeroes the buffer passed as
\* dispatch_work's count_buffer argument and no other, and the kernels work
\* on the count buffer bound at construction and never on another argument.
\* With the buffer given to new as argument Count starts from an all-zero
\* count buffer; with another buffer the clear leaves the bound count buffer
\* as it was, so Count starts from its previous contents.
C29_ClearTargetsArgument ==
    /\ [](CountStarts =>
              /\ stage.target = "count" => AllZero(Counts)
              /\ stage.target = "other" => AllZero(other_buffer.data))
    /\ [][ClearStep =>
              IF Head(queue).target = "count"
                  THEN other_buffer' = other_buffer
                  ELSE count_buffer' = count_buffer]_vars
    /\ [][other_buffer' # other_buffer =>
              ClearStep /\ Head(queue).target = "other"]_vars
    /\ [][(stage.op \in {"count", "scan", "propagate", "sort"} /\ pending' # pending
              /\ pending # {}) =>
              other_buffer' = other_buffer]_vars

\* dispatch_work was given another buffer: the clear has zeroed that buffer
\* and Count is about to start on a bound count buffer still full of ones.
C29_Witness ==
    /\ CountStarts
    /\ stage.target = "other"
    /\ AllZero(other_buffer.data)
    /\ \A b \in DOMAIN Counts : Counts[b] = 1

\* ---------------------------------------------------------------- C30
\* Every value a work-group's Kogge-Stone scan holds after each of its
\* passes, from stride d on, is within 0 .. bound.
RECURSIVE KoggeStoneWithin(_, _, _, _)
KoggeStoneWithin(xs, d, w, bound) ==
    IF d >= w
        THEN TRUE
        ELSE /\ \A k \in 1..Len(xs) :
                    /\ 0 <= KoggeStonePass(xs, d)[k]
                    /\ KoggeStonePass(xs, d)[k] <= bound
             /\ KoggeStoneWithin(KoggeStonePass(xs, d), 2 * d, w, bound)

\* C30: throughout a complete invocation with all keys in [0, B), from the
\* clear to the end of Scatter, every value the count buffer holds lies in
\* 0 .. N, every pass of every work-group scan included: no 32-bit addition
\* wraps and no decrement goes below zero.
C30_CountsWithinN ==
    (result.tag = "Ok" /\ stage.op # "idle") =>
        /\ \A b \in DOMAIN Counts : 0 <= Counts[b] /\ Counts[b] <= N
        /\ stage.op = "scan" =>
               \A g \in pending :
                   LET slots == GroupSlots(g, stage.level)
                   IN  KoggeStoneWithin([k \in 1..Len(slots) |-> Counts[slots[k]]],
                                        1, workgroup_size, N)

\* The bound is attained: after the last propagate of an engine of three
\* levels or more the last counter holds N = 2.
C30_Witness ==
    /\ result.tag = "Ok" /\ StageComplete("propagate")
    /\ stage.level = 0
    /\ Levels >= 3
    /\ N = 2
    /\ Counts[B - 1] = N

\* ---------------------------------------------------------------- C31
\* What a complete run leaves behind, up to the order inside the buckets:
\* the count buffer and, for each bucket, the set of indices stored in the
\* bucket's slot range of the sorting ids.
BucketSlots(b) == StartOffset(b)..(RunningSum(b) - 1)

Outcome ==
    [count |-> Counts,
     buckets |-> [b \in DOMAIN Counts |-> {sorting_id[s] : s \in BucketSlots(b)}]]

\* The same, computed from the inputs alone.
OutcomeOf(values, count_size) ==
    [count |-> [b \in 0..(count_size - 1) |->
                   Cardinality({i \in DOMAIN values : values[i] < b})],
     buckets |-> [b \in 0..(count_size - 1) |->
                     {i \in DOMAIN values : values[i] = b}]]

\* C31: for a fixed values buffer, B and width, every complete run of an
\* invocation, whatever the interleaving, ends with the same count buffer
\* and, for each bucket, the same set of indices in the bucket's slot range:
\* the outcome is a function of the inputs, and two runs can differ only in
\* the order of the indices inside a bucket.
C31_DeterministicUpToOrder ==
    (result.tag = "Ok" /\ Done) => Outcome = OutcomeOf(Keys, B)

\* A complete run whose sorting ids differ from those of the sequential
\* reference run on the same input, inside a bucket of two elements, while
\* the outcome is the same.
C31_Witness ==
    /\ result.tag = "Ok" /\ Done
    /\ N = 2 /\ Keys[0] = Keys[1]
    /\ sorting_id # counting_sort_on_cpu(Keys, B).sorting_id
    /\ Outcome.buckets[Keys[0]] = {0, 1}

\* ---------------------------------------------------------------- C32
\* The host has been notified of the success of the map request of s.
Notified(s) == host.received[s] = "Ok"

\* The copy ran after the sort in the one submission, which is complete.
CopiedAfterSort ==
    /\ host.commands = <<>>
    /\ host.executed = CommandBuffers

\* C32: the host reads a staging buffer only after the copy commands were
\* submitted after the sort commands in the same submission, the submission
\* completed, the buffer's map request was issued and resolved, and, for
\* each of the three staging buffers, a successful notification was
\* received.
C32_ReadbackHandshake ==
    \A s \in StagingNames :
        host.staging[s].read =>
            /\ CopiedAfterSort
            /\ host.staging[s].copied
            /\ host.staging[s].map = "Ok"
            /\ Notified(s)

\* What holds of every read: the submission is complete, copy after sort,
\* and the buffer's map request was issued and resolved before the poll
\* returned; the value and count buffers are read only after a successful
\* notification was received.
C32_ReadAfterResolution ==
    \A s \in StagingNames :
        host.staging[s].read =>
            /\ CopiedAfterSort
            /\ host.staging[s].copied
            /\ host.staging[s].map \in MapResults
            /\ s # "sorting" => Notified(s) /\ host.staging[s].map = "Ok"

\* The sorting staging buffer has been read after all three map requests
\* succeeded.
C32_SortingReadUnnotified ==
    /\ host.pc = "done"
    /\ \A s \in StagingNames : host.staging[s].read /\ host.staging[s].map = "Ok"
    /\ ~Notified("sorting")

\* The sorting staging buffer has been read although its map request failed.
C32_SortingReadAfterFailure ==
    /\ host.staging["sorting"].read
    /\ host.staging["sorting"].map = "BufferAsyncError"

\* ---------------------------------------------------------------- C33
\* An engine was constructed for the demo's sizes: N = B = 8192, width 128.
AppSizedEngine ==
    /\ result.tag = "Ok"
    /\ result.engine.value_size = AppSize
    /\ result.engine.count_size = AppSize
    /\ result.engine.workgroup_size = WORKGROUP_SIZE

\* The stage (and level) of each command of a recorded sequence, in order.
StageNames(commands) ==
    [k \in DOMAIN commands |-> <<commands[k].op, commands[k].level>>]

\* C33: for N = B = 8192 and width 128, App::update records the same
\* stages, in the same order and with the same work-group counts, as
\* dispatch_work: clear, Count, Scan level 0, Scan level 1, Propagate level
\* 0, Scatter.
C33_AppRecordsDispatchWork ==
    AppSizedEngine => app_update_commands = dispatch_work(result.engine, "count")

\* The stages and their order are the same; only the work-group counts
\* differ.
C33_SameStages ==
    AppSizedEngine =>
        /\ StageNames(app_update_commands)
               = StageNames(dispatch_work(result.engine, "count"))
        /\ StageNames(app_update_commands)
               = <<<<"clear", 0>>, <<"count", 0>>, <<"scan", 0>>, <<"scan", 1>>,
                   <<"propagate", 0>>, <<"sort", 0>>>>

\* The work-group counts of the two sequences: 65 against 64 everywhere but
\* at scan level 1.
C33_WorkgroupCounts ==
    AppSizedEngine =>
        /\ [k \in 1..6 |-> app_update_commands[k].wg] = <<0, 65, 65, 1, 65, 65>>
        /\ [k \in 1..6 |-> dispatch_work(result.engine, "count")[k].wg]
               = <<0, 64, 64, 1, 64, 64>>

====
